---- MODULE Spec2Model ----
(***************************************************************************)
(* Model of the Cybershuttle OAuth2 device-flow authentication helper      *)
(* (src/src/cybershuttle_auth.py): one CybershuttleAuth instance in one    *)
(* process, the CS_ACCESS_TOKEN environment variable, the token file, the  *)
(* clock, and the device-authorization and token endpoints it talks to     *)
(* (specification Spec); and of the token handling of the HTTP gateway     *)
(* (src/src/cybershuttle_mcp_server.py), a process of its own that reads   *)
(* CS_ACCESS_TOKEN and calls the catalog API (specification GwSpec).       *)
(***************************************************************************)
EXTENDS Integers, Sequences, FiniteSets, TLC

(*************************** bounds of the model ***************************)
\* the clock runs from 0 to MaxNow seconds
MaxNow == 2
\* the clock of the gateway process stops advancing at MaxGwNow seconds
MaxGwNow == 7200
\* the token endpoint answers authorization_pending at most MaxPending times
\* in one device flow
MaxPending == 2

(**************************** program constants ****************************)
\* _is_token_valid: time.time() < (self.token_expires_at - 300)
SafetyMargin == 300
\* _save_token: token_data.get("expires_in", 3600)
DefaultExpiresIn == 3600
\* device_flow_auth: device_response.get("interval", 5)
DefaultInterval == 5
\* refresh_auth_token: datetime.now() + timedelta(hours=1), in seconds
GwLifetime == 3600

(******************************* value sets ********************************)
\* Python's None for string-valued fields, and an unset environment variable
None == "<None>"
\* Python's None for the number-valued expires_at field
NoTime == -1
\* a key the server left out of a JSON answer
Missing == "<missing>"
MissingNum == -2

\* access tokens the token endpoint may issue ("" is an empty access_token)
Tokens == {"T1", ""}
RefreshTokens == {"R1"}
\* lifetimes (expires_in) the token endpoint may declare
Lifetimes == {301}
\* poll intervals the device endpoint may declare
Intervals == {1}
\* a pre-authenticated token supplied from outside through CS_ACCESS_TOKEN
Overrides == {"OV"}

VARIABLES
  env,               \* os.environ['CS_ACCESS_TOKEN'] (None when unset)
  file,              \* ~/.cybershuttle/token.json
  access_token,      \* self.access_token
  refresh_token,     \* self.refresh_token
  token_expires_at,  \* self.token_expires_at
  now,               \* time.time()
  pc,                \* where the running get_access_token() call waits
  interval,          \* device_flow_auth local: interval
  counter,           \* device_flow_auth local: counter
  deviceReqs,        \* device-endpoint requests sent by the current call
  tokenReqs,         \* token-endpoint requests sent by the current call
  sleeps,            \* time.sleep(interval) calls made by the current call
  fileReads,         \* open(token_file, 'r') calls made by the current call
  validChecks,       \* _is_token_valid() calls made by the current call
  lastDevice,        \* last answer of the device endpoint in the current call
  lastAnswer,        \* last answer of the token endpoint in the current call
  pendingAnswers,    \* authorization_pending answers in the current call
  issued,            \* the token response of the last HTTP 200 answer
  io,                \* how the file system served the last _save_token
  vchk,              \* inputs and result of the last _is_token_valid()
  ret,               \* what the last get_access_token() or logout() returned
  caller,            \* the public operation that made the last call
  out,               \* what that public operation returned
  last,              \* the operation or step taken last
  injected,          \* CS_ACCESS_TOKEN was supplied from outside the process
  fresh,             \* no call has been made in this process yet
  flowTok,           \* token a get_access_token() got through a device flow
  flowExp,           \* its expires_at
  saved,             \* the record written by the last successful file write
  auth_state,        \* the gateway's module-level AuthState object
  reply,             \* what the last gateway handler gave its caller
  threads            \* the get_access_token() call of each thread (ThSpec)

vars == << env, file, access_token, refresh_token, token_expires_at, now, pc,
           interval, counter, deviceReqs, tokenReqs, sleeps, fileReads,
           validChecks, lastDevice, lastAnswer, pendingAnswers, issued, io,
           vchk, ret, caller, out, last, injected, fresh, flowTok, flowExp, saved,
           auth_state, reply, threads >>

\* everything but the environment, the clock, the position of the running
\* call and the gateway's own state
gwFrame == << file, access_token, refresh_token, token_expires_at, interval,
              counter, deviceReqs, tokenReqs, sleeps, fileReads, validChecks,
              lastDevice, lastAnswer, pendingAnswers, issued, io, vchk, ret,
              caller, out, injected, fresh, flowTok, flowExp, saved,
              threads >>

(***************************** Python helpers ******************************)
\* truth value of an Optional[str]: None and "" are falsy
Truthy(v) == v # None /\ v # ""

\* truth value of an Optional[float]: None and 0 are falsy
TruthyNum(n) == n # NoTime /\ n # 0

\* dict.get(key, default) on a JSON object kept as a sequence of members
DictGet(d, k, dflt) ==
  IF \E i \in 1..Len(d) : d[i][1] = k
  THEN d[CHOOSE i \in 1..Len(d) : d[i][1] = k][2]
  ELSE dflt

\* one member of a JSON object, left out when the server did not send it
StrMember(k, v) == IF v = Missing THEN << >> ELSE << <<k, v>> >>

NumMember(k, n) == IF n = MissingNum THEN << >> ELSE << <<k, n>> >>

(**************************** endpoint answers *****************************)
\* the JSON body of an HTTP 200 answer of the token endpoint
TokenResponse(at, rt, ei) ==
  StrMember("access_token", at) \o StrMember("refresh_token", rt)
    \o NumMember("expires_in", ei)

TokenResponses ==
  { TokenResponse(at, rt, ei) : at \in Tokens \cup {Missing},
                                rt \in RefreshTokens \cup {Missing},
                                ei \in Lifetimes \cup {MissingNum} }

\* answers of the token endpoint: a network error, or a status and, for
\* HTTP 400, the error member of the body
TokenAnswers ==
  { [kind |-> "neterr", status |-> 0, error |-> ""],
    [kind |-> "http", status |-> 200, error |-> ""],
    [kind |-> "http", status |-> 500, error |-> ""] }
  \cup { [kind |-> "http", status |-> 400, error |-> e] :
           e \in {"authorization_pending", "access_denied",
                  "expired_token", "slow_down"} }

\* answers of the device-authorization endpoint
DeviceAnswers ==
  { [kind |-> "neterr", status |-> 0],
    [kind |-> "http", status |-> 200],
    [kind |-> "http", status |-> 400],
    [kind |-> "http", status |-> 500] }

(****************************** the token file *****************************)
AbsentFile == [kind |-> "absent", members |-> << >>]

\* a file that cannot be read or parsed (a truncated write leaves one)
CorruptFile == [kind |-> "corrupt", members |-> << >>]

JsonFile(m) == [kind |-> "json", members |-> m]

\* _save_token: the token_info object that json.dump writes
TokenInfo(at, rt, exp, ts) ==
  << <<"access_token", at>>, <<"refresh_token", rt>>,
     <<"expires_at", exp>>, <<"timestamp", ts>> >>

\* _save_token: the in-memory fields set from the token response at time t
SaveFields(token_data, t) ==
  [ access_token     |-> DictGet(token_data, "access_token", None),
    refresh_token    |-> DictGet(token_data, "refresh_token", None),
    token_expires_at |-> t + DictGet(token_data, "expires_in",
                                     DefaultExpiresIn) ]

\* _save_token: the try block around open() and json.dump(); an I/O error is
\* logged and swallowed
WriteFile(f, info, outcome) ==
  CASE outcome = "ok"         -> JsonFile(info)
    [] outcome = "open_fail"  -> f
    [] outcome = "write_fail" -> CorruptFile

\* a _load_token that rebuilds the expiry from the stored timestamp
LoadToken_Recompute(f, at, rt, exp, e) ==
  IF f.kind # "json"
  THEN [ ok |-> FALSE, access_token |-> at, refresh_token |-> rt,
         token_expires_at |-> exp, env |-> e,
         reads |-> IF f.kind = "absent" THEN 0 ELSE 1 ]
  ELSE LET a == DictGet(f.members, "access_token", None)
       IN [ ok |-> TRUE, access_token |-> a,
            refresh_token |-> DictGet(f.members, "refresh_token", None),
            token_expires_at |->
              DictGet(f.members, "timestamp", 0) + DefaultExpiresIn,
            env |-> IF Truthy(a) THEN a ELSE e, reads |-> 1 ]

\* _load_token: the fields, the environment variable and the return value
\* after the call, given the file and the values before it
LoadToken(f, at, rt, exp, e) ==
  IF f.kind = "absent"
  THEN [ ok |-> FALSE, access_token |-> at, refresh_token |-> rt,
         token_expires_at |-> exp, env |-> e, reads |-> 0 ]
  ELSE IF f.kind = "corrupt"
  THEN [ ok |-> FALSE, access_token |-> at, refresh_token |-> rt,
         token_expires_at |-> exp, env |-> e, reads |-> 1 ]
  ELSE LET a == DictGet(f.members, "access_token", None)
       IN [ ok |-> TRUE, access_token |-> a,
            refresh_token |-> DictGet(f.members, "refresh_token", None),
            token_expires_at |-> DictGet(f.members, "expires_at", NoTime),
            env |-> IF Truthy(a) THEN a ELSE e, reads |-> 1 ]

\* an _is_token_valid whose comparison points the wrong way
IsTokenValid_Inverted(at, exp, t) ==
  IF ~Truthy(at) \/ ~TruthyNum(exp) THEN FALSE ELSE t > exp - SafetyMargin

\* an _is_token_valid that accepts the boundary instant
IsTokenValid_NonStrict(at, exp, t) ==
  IF ~Truthy(at) \/ ~TruthyNum(exp) THEN FALSE ELSE t <= exp - SafetyMargin

\* _is_token_valid at time t
IsTokenValid(at, exp, t) ==
  IF ~Truthy(at) \/ ~TruthyNum(exp) THEN FALSE ELSE t < exp - SafetyMargin

(****************************** initial state *****************************)
NoCheck == [done |-> FALSE, at |-> None, exp |-> NoTime, now |-> 0,
            res |-> FALSE]

NoReturn == [op |-> "none", kind |-> "none", val |-> None, start |-> 0,
             at |-> 0, via |-> "none", fresh |-> FALSE]

NoSave == [kind |-> "none", access_token |-> None, refresh_token |-> None,
           at |-> 0, expires_in |-> MissingNum]

NoOutcome == [kind |-> "none", error |-> "", tok |-> None, flag |-> FALSE,
              headers |-> << >>]

\* threads of one process that share one CybershuttleAuth
Threads == {1, 2}

\* a thread that is not inside get_access_token()
NoCall == [pc |-> "idle", kind |-> "none", val |-> None, counter |-> 0]

\* AuthState.__init__: no token, no expiry
NoAuthState == [token |-> None, token_expires_at |-> NoTime,
                refresh_token |-> None]

\* no answer of the catalog API
NoUpstream == [kind |-> "none", status |-> 0, body |-> ""]

\* no gateway handler has run
NoReply == [op |-> "none", kind |-> "none", status |-> 0, detail |-> << >>,
            body |-> "", sent |-> 0, bearer |-> None, upstream |-> NoUpstream,
            obtainable |-> FALSE, health |-> "none", authenticated |-> FALSE]

\* __init__ in a new process: the fields are None, then access_token takes
\* the value of CS_ACCESS_TOKEN; the token file does not exist yet
Init ==
  /\ env \in {None} \cup Overrides
  /\ file = AbsentFile
  /\ access_token = env
  /\ refresh_token = None
  /\ token_expires_at = NoTime
  /\ now = 0
  /\ pc = "idle"
  /\ interval = 0
  /\ counter = 0
  /\ deviceReqs = 0
  /\ tokenReqs = 0
  /\ sleeps = 0
  /\ fileReads = 0
  /\ validChecks = 0
  /\ lastDevice = "none"
  /\ lastAnswer = "none"
  /\ pendingAnswers = 0
  /\ issued = << >>
  /\ io = "none"
  /\ vchk = NoCheck
  /\ ret = NoReturn
  /\ caller = "none"
  /\ out = NoOutcome
  /\ last = "init"
  /\ injected = (env # None)
  /\ fresh = TRUE
  /\ flowTok = None
  /\ flowExp = NoTime
  /\ saved = NoSave
  /\ auth_state = NoAuthState
  /\ reply = NoReply
  /\ threads = [t \in Threads |-> NoCall]

(**************************** get_access_token *****************************)
\* an override test that gives way to an existing token file
UseOverride_FileFirst == Truthy(env) /\ file.kind = "absent"

\* get_access_token, lines 207-208: the override test on CS_ACCESS_TOKEN
UseOverride == Truthy(env)

\* what get_access_token() hands back when it returns a value
Returned(v, how) ==
  [op |-> "get_access_token", kind |-> "value", val |-> v, start |-> now,
   at |-> now, via |-> how, fresh |-> fresh]

\* a get_auth_headers that only rejects a missing token
GetAuthHeaders_NoneOnly(r) ==
  IF r.kind = "raised"
  THEN [NoOutcome EXCEPT !.kind = "raised", !.error = "propagated"]
  ELSE IF r.val = None
  THEN [NoOutcome EXCEPT !.kind = "raised", !.error = "ValueError"]
  ELSE [NoOutcome EXCEPT !.kind = "value", !.tok = r.val,
          !.headers = << <<"Authorization", <<"Bearer ", r.val>> >>,
                         <<"Content-Type", "application/json">> >>]

\* get_auth_headers, lines 232-239, given how get_access_token() ended
GetAuthHeaders(r) ==
  IF r.kind = "raised"
  THEN [NoOutcome EXCEPT !.kind = "raised", !.error = "propagated"]
  ELSE IF ~Truthy(r.val)
  THEN [NoOutcome EXCEPT !.kind = "raised", !.error = "ValueError"]
  ELSE [NoOutcome EXCEPT !.kind = "value", !.tok = r.val,
          !.headers = << <<"Authorization", <<"Bearer ", r.val>> >>,
                         <<"Content-Type", "application/json">> >>]

\* is_authenticated, line 248, given how get_access_token() ended
IsAuthenticated(r) ==
  IF r.kind = "raised"
  THEN [NoOutcome EXCEPT !.kind = "raised", !.error = "propagated"]
  ELSE [NoOutcome EXCEPT !.kind = "value", !.tok = r.val,
          !.flag = (r.val # None)]

\* authenticate, lines 273-277, given how its last call on the new object
\* ended: the probe's get_access_token() or the direct device_flow_auth()
AuthenticateResult(r) ==
  IF r.kind = "raised"
  THEN [NoOutcome EXCEPT !.kind = "raised", !.error = "propagated"]
  ELSE IF r.op = "get_access_token" /\ r.val # None
  THEN [NoOutcome EXCEPT !.kind = "value", !.tok = r.val, !.flag = TRUE]
  ELSE IF r.op = "device_flow_auth" /\ r.via = "flow"
  THEN [NoOutcome EXCEPT !.kind = "value", !.tok = r.val]
  ELSE [NoOutcome EXCEPT !.kind = "raised", !.error = "ValueError"]

\* what the public operation c returns once get_access_token() has ended as
\* r says
Outcome(c, r) ==
  IF r.kind = "running" THEN NoOutcome
  ELSE IF c = "get_auth_headers" THEN GetAuthHeaders(r)
  ELSE IF c = "is_authenticated" THEN IsAuthenticated(r)
  ELSE IF c = "authenticate" THEN AuthenticateResult(r)
  ELSE [NoOutcome EXCEPT !.kind = r.kind, !.tok = r.val]

\* the public operations that call get_access_token(): the caller of the
\* class itself, get_auth_headers() (line 232) and is_authenticated()
\* (line 248)
Callers == {"get_access_token", "get_auth_headers", "is_authenticated"}

\* an authenticate() that raises as soon as the probe fails
SecondFlowDue_Never(c, r) == c = "authenticate" /\ r.op = "logout"

\* authenticate, lines 274-275: is_authenticated() returned False, that is,
\* the device flow of its get_access_token() failed, and device_flow_auth()
\* is called directly
SecondFlowDue(c, r) == c = "authenticate" /\ r.op = "get_access_token"

\* get_access_token() called by c on an object whose fields are at, rt and
\* exp, from its first line to its return or, when it has to run the device
\* flow, to the phase-1 request of device_flow_auth()
GetAccessTokenAs(c, at, rt, exp) ==
  /\ pc = "idle"
  /\ UNCHANGED << auth_state, reply, threads >>
  /\ caller' = c
  /\ fresh' = FALSE
  /\ interval' = 0 /\ counter' = 0
  /\ tokenReqs' = 0 /\ sleeps' = 0
  /\ lastDevice' = "none" /\ lastAnswer' = "none" /\ pendingAnswers' = 0
  /\ issued' = << >>
  /\ io' = "none"
  /\ UNCHANGED << file, now, injected, flowTok, flowExp, saved >>
  /\ IF UseOverride
     THEN \* lines 209-210
          /\ access_token' = env
          /\ ret' = Returned(env, "override")
          /\ pc' = "idle"
          /\ fileReads' = 0 /\ validChecks' = 0 /\ deviceReqs' = 0
          /\ refresh_token' = rt
          /\ token_expires_at' = exp
          /\ UNCHANGED << env, vchk >>
     ELSE \* lines 212-218
          LET ld == LoadToken(file, at, rt, exp, env)
              valid == IsTokenValid(ld.access_token, ld.token_expires_at, now)
          IN /\ access_token' = ld.access_token
             /\ refresh_token' = ld.refresh_token
             /\ token_expires_at' = ld.token_expires_at
             /\ env' = ld.env
             /\ fileReads' = ld.reads
             /\ validChecks' = 1
             /\ vchk' = [done |-> TRUE, at |-> ld.access_token,
                         exp |-> ld.token_expires_at, now |-> now,
                         res |-> valid]
             /\ IF valid
                THEN /\ ret' = Returned(ld.access_token, "cache")
                     /\ pc' = "idle"
                     /\ deviceReqs' = 0
                ELSE \* line 220 and device_flow_auth line 125
                     /\ ret' = [Returned(None, "flow") EXCEPT
                                  !.kind = "running"]
                     /\ pc' = "device_wait"
                     /\ deviceReqs' = 1
  /\ out' = Outcome(caller', ret')

\* get_access_token(), get_auth_headers() or is_authenticated() is called on
\* this instance
GetAccessToken ==
  /\ last' = "GetAccessToken"
  /\ \E c \in Callers :
       GetAccessTokenAs(c, access_token, refresh_token, token_expires_at)

\* authenticate(): a new CybershuttleAuth (line 273; __init__ lines 43-48
\* leave access_token = CS_ACCESS_TOKEN and the other fields None) takes
\* the place of this instance, and is_authenticated() is called on it
Authenticate ==
  /\ last' = "Authenticate"
  /\ GetAccessTokenAs("authenticate", env, None, NoTime)

\* a get_access_token that starts the device flow again when it failed
ReturnFailure_Retry ==
  /\ pc' = "device_wait"
  /\ deviceReqs' = deviceReqs + 1
  /\ UNCHANGED << ret, tokenReqs, interval, counter, sleeps, now >>

\* get_access_token, lines 220-223: device_flow_auth() returned False
ReturnFailure ==
  /\ pc' = "idle"
  /\ ret' = [ret EXCEPT !.kind = "value", !.val = None, !.at = now,
                        !.via = "flow_failed"]
  /\ UNCHANGED << deviceReqs, tokenReqs, interval, counter, sleeps, now >>

\* authenticate, line 275, and device_flow_auth line 125: the second flow
\* starts
SecondFlow ==
  /\ pc' = "device_wait"
  /\ deviceReqs' = deviceReqs + 1
  /\ ret' = [ret EXCEPT !.op = "device_flow_auth"]
  /\ UNCHANGED << tokenReqs, interval, counter, sleeps, now >>

\* device_flow_auth() returned False to its caller
FlowFailed ==
  IF SecondFlowDue(caller, ret) THEN SecondFlow ELSE ReturnFailure

\* an exception that device_flow_auth() does not catch leaves
\* get_access_token()
RaiseError ==
  /\ pc' = "idle"
  /\ ret' = [ret EXCEPT !.kind = "raised", !.val = None, !.at = now,
                        !.via = "flow_raised"]
  /\ UNCHANGED << deviceReqs, tokenReqs, interval, counter, sleeps, now >>

(***************************** device_flow_auth ****************************)
\* a phase 1 that gives up on server errors only
Phase1Outcome_Lenient(ans) ==
  IF ans.kind = "neterr" THEN "fail"
  ELSE IF ans.status >= 500 THEN "fail"
  ELSE "poll"

\* device_flow_auth, lines 124-140: what follows the phase-1 answer
Phase1Outcome(ans) ==
  IF ans.kind = "neterr" THEN "fail"
  ELSE IF ans.status # 200 THEN "fail"
  ELSE "poll"

\* the answer to the device-authorization request arrives; on HTTP 200 the
\* first token request goes out (line 165)
DeviceAnswer ==
  /\ pc = "device_wait"
  /\ UNCHANGED << auth_state, reply, threads >>
  /\ last' = "DeviceAnswer"
  /\ \E ans \in DeviceAnswers, iv \in Intervals \cup {MissingNum} :
       /\ lastDevice' = (IF ans.kind = "neterr" THEN "neterr"
                         ELSE IF ans.status = 200 THEN "200" ELSE "status")
       /\ IF Phase1Outcome(ans) = "poll"
          THEN /\ interval' = (IF iv = MissingNum THEN DefaultInterval ELSE iv)
               /\ counter' = 0
               /\ tokenReqs' = tokenReqs + 1
               /\ pc' = "token_wait"
               /\ UNCHANGED << ret, deviceReqs, sleeps, now >>
          ELSE FlowFailed
  /\ UNCHANGED << env, file, access_token, refresh_token, token_expires_at,
                  fileReads, validChecks, lastAnswer, pendingAnswers, issued,
                  io, vchk, caller, injected, fresh, flowTok, flowExp,
                  saved >>
  /\ out' = Outcome(caller, ret')

\* a polling loop that takes every answer for authorization_pending
PollOutcome_AlwaysPending(ans) ==
  IF ans.kind = "neterr" THEN "pending"
  ELSE IF ans.status = 200 THEN "pending"
  ELSE "pending"

\* a polling loop that takes the body of an HTTP 500 answer for a token
\* response
PollOutcome_KeepsErrorBody(ans) ==
  IF ans.kind = "neterr" THEN "fail"
  ELSE IF ans.status \in {200, 500} THEN "success"
  ELSE IF ans.status = 400
       THEN IF ans.error = "authorization_pending" THEN "pending" ELSE "fail"
  ELSE "fail"

\* a polling loop that keeps polling on slow_down
PollOutcome_SlowDown(ans) ==
  IF ans.kind = "neterr" THEN "fail"
  ELSE IF ans.status = 200 THEN "success"
  ELSE IF ans.status = 400
       THEN IF ans.error \in {"authorization_pending", "slow_down"}
            THEN "pending" ELSE "fail"
  ELSE "fail"

\* device_flow_auth, lines 167-198: what follows a token-endpoint answer
PollOutcome(ans) ==
  IF ans.kind = "neterr" THEN "fail"
  ELSE IF ans.status = 200 THEN "success"
  ELSE IF ans.status = 400
       THEN IF ans.error = "authorization_pending" THEN "pending" ELSE "fail"
  ELSE "fail"

\* how the model names a token-endpoint answer in lastAnswer
AnswerName(ans) ==
  IF ans.kind = "neterr" THEN "neterr"
  ELSE IF ans.status = 200 THEN "200"
  ELSE IF ans.status = 400 THEN ans.error
  ELSE "status"

\* a polling loop that sleeps by the attempt counter, not the interval
SleepTime_Counter == counter

\* device_flow_auth, line 186: time.sleep(interval)
SleepTime == interval

\* lines 183-187: authorization_pending; count, sleep, and poll again
PollAgain ==
  /\ counter' = counter + 1
  /\ sleeps' = sleeps + 1
  /\ now' = now + SleepTime
  /\ tokenReqs' = tokenReqs + 1
  /\ pc' = "token_wait"
  /\ UNCHANGED << ret, deviceReqs, interval >>

\* a _save_token that mirrors the wrong field into CS_ACCESS_TOKEN
EnvMirror_Refresh(f) == f.refresh_token

\* _save_token, line 66: the value mirrored into CS_ACCESS_TOKEN
EnvMirror(f) == f.access_token

\* lines 169-177 with _save_token (lines 56-80), for the token response resp;
\* makedirs fails or not (dirOK), and the file write ends as w says
TokenSuccess(resp, dirOK, w) ==
  LET at == DictGet(resp, "access_token", None)
      f == SaveFields(resp, now)
  IN IF at = None
     THEN \* line 172: os.environ[...] = None raises TypeError
          /\ RaiseError
          /\ io' = "none"
          /\ UNCHANGED << env, file, access_token, refresh_token,
                          token_expires_at, flowTok, flowExp, saved >>
     ELSE IF ~dirOK
     THEN \* line 58: os.makedirs raises OSError, after line 172 ran
          /\ env' = at
          /\ io' = "dir_fail"
          /\ RaiseError
          /\ UNCHANGED << file, access_token, refresh_token,
                          token_expires_at, flowTok, flowExp, saved >>
     ELSE /\ access_token' = f.access_token
          /\ refresh_token' = f.refresh_token
          /\ token_expires_at' = f.token_expires_at
          /\ env' = EnvMirror(f)
          /\ io' = w
          /\ file' = WriteFile(file,
                               TokenInfo(f.access_token, f.refresh_token,
                                         f.token_expires_at, now), w)
          /\ saved' = IF w = "ok"
                      THEN [kind |-> "record", access_token |-> at,
                            refresh_token |->
                              DictGet(resp, "refresh_token", None),
                            at |-> now,
                            expires_in |->
                              DictGet(resp, "expires_in", MissingNum)]
                      ELSE IF w = "write_fail" THEN NoSave ELSE saved
          \* get_access_token, line 221
          /\ ret' = [ret EXCEPT !.kind = "value", !.val = f.access_token,
                                !.at = now, !.via = "flow"]
          /\ flowTok' = f.access_token
          /\ flowExp' = f.token_expires_at
          /\ pc' = "idle"
          /\ UNCHANGED << deviceReqs, tokenReqs, interval, counter, sleeps,
                          now >>

\* the answer to a token request arrives
TokenAnswer ==
  /\ pc = "token_wait"
  /\ UNCHANGED << auth_state, reply, threads >>
  /\ last' = "TokenAnswer"
  /\ \E ans \in TokenAnswers :
       /\ lastAnswer' = AnswerName(ans)
       /\ CASE PollOutcome(ans) = "pending" ->
                 /\ counter < MaxPending
                 /\ now + interval <= MaxNow
                 /\ PollAgain
                 /\ pendingAnswers' = pendingAnswers + 1
                 /\ UNCHANGED << env, file, access_token, refresh_token,
                                 token_expires_at, issued, io, flowTok, flowExp, saved >>
            [] PollOutcome(ans) = "fail" ->
                 /\ FlowFailed
                 /\ UNCHANGED << env, file, access_token, refresh_token,
                                 token_expires_at, issued, io, flowTok, flowExp, saved, pendingAnswers >>
            [] PollOutcome(ans) = "success" ->
                 \E resp \in TokenResponses,
                    dirOK \in (IF file.kind = "absent" THEN BOOLEAN
                               ELSE {TRUE}),
                    w \in {"ok", "open_fail", "write_fail"} :
                   /\ issued' = resp
                   /\ TokenSuccess(resp, dirOK, w)
                   /\ UNCHANGED pendingAnswers
  /\ UNCHANGED << fileReads, validChecks, lastDevice, vchk, caller, injected,
                  fresh >>
  /\ out' = Outcome(caller, ret')

(********************************* logout **********************************)
\* a logout that removes the file without looking whether it exists and
\* without catching the error
LogoutOutcome_Unguarded(f, rmOK) ==
  IF f.kind = "absent" \/ ~rmOK THEN "raised" ELSE "value"

\* logout, lines 259-264: how the call ends; os.remove is only tried on an
\* existing file and its error is caught and logged, so the call returns
LogoutOutcome(f, rmOK) == "value"

\* nothing is stored: no file, no environment variable, no field set
StoreEmpty ==
  /\ file.kind = "absent"
  /\ env = None
  /\ access_token = None
  /\ refresh_token = None
  /\ token_expires_at = NoTime

\* logout, lines 259-264: the token file after the call
RemoveFile(f, rmOK) == IF f.kind # "absent" /\ rmOK THEN AbsentFile ELSE f

\* what logout() does to the environment, the file and the observations of
\* the model, whichever instance it is called on
ClearStore(who, rmOK) ==
  /\ env' = None
  /\ file' = RemoveFile(file, rmOK)
  /\ saved' = IF RemoveFile(file, rmOK) = file THEN saved ELSE NoSave
  /\ ret' = [op |-> who, kind |-> LogoutOutcome(file, rmOK), val |-> None,
             start |-> now, at |-> now,
             via |-> IF ~StoreEmpty THEN "none"
                     ELSE IF ret.op = "logout"
                             /\ ret.via \in {"empty", "repeated"}
                          THEN "repeated" ELSE "empty",
             fresh |-> fresh]
  /\ caller' = who
  /\ UNCHANGED << auth_state, reply, threads >>
  /\ out' = [NoOutcome EXCEPT !.kind = LogoutOutcome(file, rmOK)]
  /\ flowTok' = None
  /\ flowExp' = NoTime
  /\ interval' = 0 /\ counter' = 0 /\ deviceReqs' = 0 /\ tokenReqs' = 0
  /\ sleeps' = 0 /\ fileReads' = 0 /\ validChecks' = 0
  /\ lastDevice' = "none" /\ lastAnswer' = "none" /\ pendingAnswers' = 0
  /\ issued' = << >>
  /\ io' = "none"
  /\ vchk' = NoCheck
  /\ UNCHANGED << now, pc, injected >>

\* logout(); removing the file works (rmOK) or fails and is logged
Logout ==
  /\ pc = "idle"
  /\ last' = "Logout"
  /\ fresh' = FALSE
  /\ access_token' = None
  /\ refresh_token' = None
  /\ token_expires_at' = NoTime
  /\ \E rmOK \in BOOLEAN : ClearStore("logout", rmOK)

\* logout() called on another CybershuttleAuth of the same process (each
\* authenticate() makes a new one, line 273): the environment and the file
\* are shared, the fields of this instance are not touched
OtherLogout ==
  /\ pc = "idle"
  /\ last' = "OtherLogout"
  /\ UNCHANGED << access_token, refresh_token, token_expires_at, fresh >>
  /\ \E rmOK \in BOOLEAN : ClearStore("other_logout", rmOK)

(************************** the world around it ****************************)
\* the process ends and a new one starts: __init__ runs again (lines 43-48)
\* with CS_ACCESS_TOKEN unset or supplied from outside; the file stays
Restart ==
  /\ pc = "idle"
  /\ UNCHANGED << auth_state, reply, threads >>
  /\ last' = "Restart"
  /\ fresh' = TRUE
  /\ env' \in {None} \cup Overrides
  /\ access_token' = env'
  /\ refresh_token' = None
  /\ token_expires_at' = NoTime
  /\ injected' = (env' # None)
  /\ ret' = NoReturn
  /\ caller' = "none"
  /\ out' = NoOutcome
  /\ vchk' = NoCheck
  /\ flowTok' = None
  /\ flowExp' = NoTime
  /\ interval' = 0 /\ counter' = 0 /\ deviceReqs' = 0 /\ tokenReqs' = 0
  /\ sleeps' = 0 /\ fileReads' = 0 /\ validChecks' = 0
  /\ lastDevice' = "none" /\ lastAnswer' = "none" /\ pendingAnswers' = 0
  /\ issued' = << >>
  /\ io' = "none"
  /\ UNCHANGED << file, now, pc, saved >>

\* a second passes while no call is running
Tick ==
  /\ pc = "idle"
  /\ UNCHANGED << auth_state, reply, threads >>
  /\ now < MaxNow
  /\ now' = now + 1
  /\ last' = "Tick"
  /\ UNCHANGED << env, file, access_token, refresh_token, token_expires_at,
                  pc, interval, counter, deviceReqs, tokenReqs, sleeps,
                  fileReads, validChecks, lastDevice, lastAnswer,
                  pendingAnswers, issued, io, vchk, ret, caller, out,
                  injected, fresh, flowTok, flowExp, saved >>

Next ==
  \/ GetAccessToken
  \/ DeviceAnswer
  \/ TokenAnswer
  \/ Logout
  \/ OtherLogout
  \/ Restart
  \/ Tick

Spec == Init /\ [][Next]_vars

\* the endpoints answer every request that is waiting: requests.post returns
\* or raises; the token endpoint answers authorization_pending at most
\* MaxPending times in a row (the guard of TokenAnswer)
LiveSpec == Spec /\ WF_vars(DeviceAnswer) /\ WF_vars(TokenAnswer)

(***************************** overlapping calls ***************************)
\* what the thread actions leave alone
thFrame == << now, pc, interval, counter, deviceReqs, tokenReqs, sleeps,
              fileReads, validChecks, lastDevice, lastAnswer, pendingAnswers,
              issued, io, vchk, ret, caller, out, injected, fresh, flowTok,
              flowExp, saved, auth_state, reply >>

\* thread t calls get_access_token() on the shared object and runs it to
\* its return or to the phase-1 request of device_flow_auth() (lines
\* 207-220 and 125); nothing in the class makes it wait for another thread
ThCall(t) ==
  /\ threads[t].pc = "idle"
  /\ last' = "ThCall"
  /\ UNCHANGED file
  /\ IF UseOverride
     THEN /\ access_token' = env
          /\ threads' = [threads EXCEPT ![t] =
                           [NoCall EXCEPT !.kind = "value", !.val = env]]
          /\ UNCHANGED << env, refresh_token, token_expires_at >>
     ELSE LET ld == LoadToken(file, access_token, refresh_token,
                              token_expires_at, env)
              valid == IsTokenValid(ld.access_token, ld.token_expires_at, now)
          IN /\ access_token' = ld.access_token
             /\ refresh_token' = ld.refresh_token
             /\ token_expires_at' = ld.token_expires_at
             /\ env' = ld.env
             /\ threads' = [threads EXCEPT ![t] =
                              IF valid
                              THEN [NoCall EXCEPT !.kind = "value",
                                                  !.val = ld.access_token]
                              ELSE [NoCall EXCEPT !.pc = "device_wait",
                                                  !.kind = "running"]]
  /\ UNCHANGED thFrame

\* the answer to thread t's device-authorization request arrives (lines
\* 125-140); on HTTP 200 its first token request goes out
ThDeviceAnswer(t) ==
  /\ threads[t].pc = "device_wait"
  /\ last' = "ThDeviceAnswer"
  /\ \E ans \in DeviceAnswers :
       threads' = [threads EXCEPT ![t] =
                     IF Phase1Outcome(ans) = "poll"
                     THEN [@ EXCEPT !.pc = "token_wait", !.counter = 0]
                     ELSE [NoCall EXCEPT !.kind = "value"]]
  /\ UNCHANGED << env, file, access_token, refresh_token, token_expires_at >>
  /\ UNCHANGED thFrame

\* the answer to thread t's token request arrives (lines 165-198, and
\* _save_token on HTTP 200)
ThTokenAnswer(t) ==
  /\ threads[t].pc = "token_wait"
  /\ last' = "ThTokenAnswer"
  /\ \E ans \in TokenAnswers :
       CASE PollOutcome(ans) = "pending" ->
              /\ threads[t].counter < MaxPending
              /\ threads' = [threads EXCEPT ![t].counter = @ + 1]
              /\ UNCHANGED << env, file, access_token, refresh_token,
                              token_expires_at >>
         [] PollOutcome(ans) = "fail" ->
              /\ threads' = [threads EXCEPT ![t] =
                               [NoCall EXCEPT !.kind = "value"]]
              /\ UNCHANGED << env, file, access_token, refresh_token,
                              token_expires_at >>
         [] PollOutcome(ans) = "success" ->
              \E resp \in TokenResponses,
                 dirOK \in (IF file.kind = "absent" THEN BOOLEAN ELSE {TRUE}),
                 w \in {"ok", "open_fail", "write_fail"} :
                LET at == DictGet(resp, "access_token", None)
                    f == SaveFields(resp, now)
                IN IF at = None
                   THEN \* line 172 raises TypeError
                        /\ threads' = [threads EXCEPT ![t] =
                                         [NoCall EXCEPT !.kind = "raised"]]
                        /\ UNCHANGED << env, file, access_token,
                                        refresh_token, token_expires_at >>
                   ELSE IF ~dirOK
                   THEN \* line 58 raises OSError, after line 172 ran
                        /\ env' = at
                        /\ threads' = [threads EXCEPT ![t] =
                                         [NoCall EXCEPT !.kind = "raised"]]
                        /\ UNCHANGED << file, access_token, refresh_token,
                                        token_expires_at >>
                   ELSE /\ access_token' = f.access_token
                        /\ refresh_token' = f.refresh_token
                        /\ token_expires_at' = f.token_expires_at
                        /\ env' = EnvMirror(f)
                        /\ file' = WriteFile(file,
                                     TokenInfo(f.access_token,
                                               f.refresh_token,
                                               f.token_expires_at, now), w)
                        /\ threads' = [threads EXCEPT ![t] =
                                         [NoCall EXCEPT
                                            !.kind = "value",
                                            !.val = f.access_token]]
  /\ UNCHANGED thFrame

\* logout() between calls, by a thread that is in no call
ThLogout ==
  /\ \A t \in Threads : threads[t].pc = "idle"
  /\ last' = "ThLogout"
  /\ access_token' = None
  /\ refresh_token' = None
  /\ token_expires_at' = NoTime
  /\ env' = None
  /\ \E rmOK \in BOOLEAN : file' = RemoveFile(file, rmOK)
  /\ threads' = [t \in Threads |-> NoCall]
  /\ UNCHANGED thFrame

ThNext ==
  \/ \E t \in Threads : ThCall(t)
  \/ \E t \in Threads : ThDeviceAnswer(t)
  \/ \E t \in Threads : ThTokenAnswer(t)
  \/ ThLogout

\* one CybershuttleAuth shared by the threads of a process
ThSpec == Init /\ [][ThNext]_vars

(****************************** authenticate ******************************)
AuthnNext ==
  \/ Authenticate
  \/ DeviceAnswer
  \/ TokenAnswer
  \/ Restart
  \/ Tick

\* a process whose only entry point is authenticate()
AuthnSpec == Init /\ [][AuthnNext]_vars

(************************ a second instance's token ************************)
\* the token response another CybershuttleAuth of the same process gets
OtherResponse ==
  TokenResponse("T2", "R2", 2 * DefaultExpiresIn)

\* another CybershuttleAuth of the same process (each authenticate() makes
\* a new one, line 273) completes a device flow: lines 172 and 56-80 set
\* CS_ACCESS_TOKEN and write the file; the fields of this instance are not
\* touched
OtherSave ==
  /\ pc = "idle"
  /\ last' = "OtherSave"
  /\ LET f == SaveFields(OtherResponse, now)
     IN /\ env' = EnvMirror(f)
        /\ file' = WriteFile(file,
                             TokenInfo(f.access_token, f.refresh_token,
                                       f.token_expires_at, now), "ok")
        /\ saved' = [kind |-> "record", access_token |-> f.access_token,
                     refresh_token |-> f.refresh_token, at |-> now,
                     expires_in |-> 2 * DefaultExpiresIn]
  /\ UNCHANGED << access_token, refresh_token, token_expires_at, now, pc,
                  interval, counter, deviceReqs, tokenReqs, sleeps,
                  fileReads, validChecks, lastDevice, lastAnswer,
                  pendingAnswers, issued, io, vchk, ret, caller, out,
                  injected, fresh, flowTok, flowExp, auth_state, reply,
                  threads >>

MultiNext ==
  \/ Next
  \/ OtherSave

\* the process of Spec with a second instance that authenticates
MultiSpec == Init /\ [][MultiNext]_vars

(******************************* the gateway *******************************)
\* values CS_ACCESS_TOKEN may have when the gateway process starts
GwEnvs == {None, "", "T1"}

\* answers of the catalog API: a JSON body, an empty body, two HTTP error
\* statuses with their bodies, and no answer at all
Upstreams ==
  { [kind |-> "ok", status |-> 200, body |-> "B1"],
    [kind |-> "ok", status |-> 200, body |-> ""],
    [kind |-> "http_error", status |-> 404, body |-> "E1"],
    [kind |-> "http_error", status |-> 503, body |-> "E2"],
    [kind |-> "unreachable", status |-> 0, body |-> ""] }

\* str(status)
StatusText(n) ==
  IF n = 404 THEN "404" ELSE IF n = 503 THEN "503" ELSE "200"

\* str(e) of the HTTPError that raise_for_status() builds: the status, the
\* reason phrase and the URL
HTTPErrorText(u) ==
  << StatusText(u.status),
     IF u.status < 500 THEN " Client Error" ELSE " Server Error",
     " for url" >>

\* AuthState.is_token_valid
AuthStateValid(st, t) ==
  /\ st.token # None
  /\ st.token_expires_at # NoTime
  /\ t < st.token_expires_at

\* a refresh_auth_token that sends the client through the device flow when
\* no token is configured
RefreshAuthToken_DeviceFlow(st, e, t) ==
  IF ~Truthy(e)
  THEN [ok |-> FALSE, state |-> st, pc |-> "device_wait"]
  ELSE [ok |-> TRUE, pc |-> "idle",
        state |-> [st EXCEPT !.token = e,
                             !.token_expires_at = t + GwLifetime]]

\* refresh_auth_token: the token comes from CS_ACCESS_TOKEN alone; pc is
\* where the handler is when the function is left
RefreshAuthToken(st, e, t) ==
  IF ~Truthy(e)
  THEN [ok |-> FALSE, state |-> st, pc |-> "idle"]
  ELSE [ok |-> TRUE, pc |-> "idle",
        state |-> [st EXCEPT !.token = e,
                             !.token_expires_at = t + GwLifetime]]

\* get_auth_token
GetAuthToken(st, e, t) ==
  LET rf == IF AuthStateValid(st, t)
            THEN [ok |-> TRUE, state |-> st, pc |-> "idle"]
            ELSE RefreshAuthToken(st, e, t)
  IN IF ~rf.ok
     THEN [kind |-> "raised", status |-> 401,
           detail |-> <<"Authentication failed: ", "401">>,
           token |-> None, state |-> rf.state, pc |-> rf.pc]
     ELSE IF ~Truthy(rf.state.token)
     THEN [kind |-> "raised", status |-> 401,
           detail |-> <<"Unable to authenticate with Cybershuttle API">>,
           token |-> None, state |-> rf.state, pc |-> rf.pc]
     ELSE [kind |-> "value", status |-> 200, detail |-> << >>,
           token |-> rf.state.token, state |-> rf.state, pc |-> rf.pc]

\* make_authenticated_request, lines 119-128: what the answer u of the
\* catalog API becomes
UpstreamResult(u) ==
  IF u.kind = "ok"
  THEN [kind |-> "value", status |-> 200, detail |-> << >>,
        body |-> IF u.body # "" THEN u.body ELSE "{}"]
  ELSE IF u.kind = "http_error"
  THEN [kind |-> "raised", status |-> u.status,
        detail |-> <<"Cybershuttle API error: ">> \o HTTPErrorText(u),
        body |-> ""]
  ELSE [kind |-> "raised", status |-> 500,
        detail |-> <<"Failed to connect to Cybershuttle API: ",
                     "ConnectionError">>,
        body |-> ""]

\* a make_authenticated_request that calls upstream whether or not it got a
\* token
MakeAuthenticatedRequest_Anonymous(st, e, t, u) ==
  LET g == GetAuthToken(st, e, t)
      r == UpstreamResult(u)
  IN [kind |-> r.kind, status |-> r.status, detail |-> r.detail,
      body |-> r.body, sent |-> 1, bearer |-> g.token, upstream |-> u,
      state |-> g.state, pc |-> g.pc]

\* make_authenticated_request
MakeAuthenticatedRequest(st, e, t, u) ==
  LET g == GetAuthToken(st, e, t)
      r == UpstreamResult(u)
  IN IF g.kind = "raised"
     THEN [kind |-> "raised", status |-> g.status, detail |-> g.detail,
           body |-> "", sent |-> 0, bearer |-> None, upstream |-> NoUpstream,
           state |-> g.state, pc |-> g.pc]
     ELSE [kind |-> r.kind, status |-> r.status, detail |-> r.detail,
           body |-> r.body, sent |-> 1, bearer |-> g.token, upstream |-> u,
           state |-> g.state, pc |-> g.pc]

\* a health_check without its except clause
HealthResponse_Uncaught(g, m) ==
  IF g.kind = "raised"
  THEN [kind |-> "raised", status |-> g.status, health |-> "none",
        authenticated |-> FALSE]
  ELSE IF m.kind = "raised"
  THEN [kind |-> "raised", status |-> m.status, health |-> "none",
        authenticated |-> FALSE]
  ELSE [kind |-> "value", status |-> 200, health |-> "healthy",
        authenticated |-> Truthy(g.token)]

\* health_check, lines 462-481: g is how get_auth_token() ended and m how
\* the probe through make_authenticated_request() ended
HealthResponse(g, m) ==
  IF g.kind = "raised" \/ m.kind = "raised"
  THEN [kind |-> "value", status |-> 200, health |-> "unhealthy",
        authenticated |-> FALSE]
  ELSE [kind |-> "value", status |-> 200, health |-> "healthy",
        authenticated |-> Truthy(g.token)]

\* a token can be had: a valid cached copy or a non-empty CS_ACCESS_TOKEN
Obtainable == AuthStateValid(auth_state, now) \/ Truthy(env)

\* a gateway handler (list_resources, get_project, ...) that forwards one
\* call through make_authenticated_request and lets its error propagate
GatewayRequest ==
  /\ pc = "idle"
  /\ last' = "GatewayRequest"
  /\ \E u \in Upstreams :
       LET m == MakeAuthenticatedRequest(auth_state, env, now, u)
       IN /\ auth_state' = m.state
          /\ pc' = m.pc
          /\ reply' = [NoReply EXCEPT
                         !.op = "request", !.kind = m.kind,
                         !.status = m.status, !.detail = m.detail,
                         !.body = m.body, !.sent = m.sent,
                         !.bearer = m.bearer, !.upstream = m.upstream,
                         !.obtainable = Obtainable]
  /\ UNCHANGED << env, now >>
  /\ UNCHANGED gwFrame

\* GET /health: get_auth_token(), then the probe
HealthCheck ==
  /\ pc = "idle"
  /\ last' = "HealthCheck"
  /\ \E u \in Upstreams :
       LET g == GetAuthToken(auth_state, env, now)
           m == MakeAuthenticatedRequest(g.state, env, now, u)
           called == g.kind = "value"
           h == HealthResponse(g, m)
       IN /\ auth_state' = IF called THEN m.state ELSE g.state
          /\ pc' = IF called THEN m.pc ELSE g.pc
          /\ reply' = [NoReply EXCEPT
                         !.op = "health", !.kind = h.kind,
                         !.status = h.status, !.health = h.health,
                         !.authenticated = h.authenticated,
                         !.sent = IF called THEN m.sent ELSE 0,
                         !.bearer = IF called THEN m.bearer ELSE None,
                         !.upstream = IF called THEN m.upstream
                                      ELSE NoUpstream,
                         !.obtainable = Obtainable]
  /\ UNCHANGED << env, now >>
  /\ UNCHANGED gwFrame

\* the gateway process is started again: auth_state = AuthState() and
\* CS_ACCESS_TOKEN as the new process finds it
GwRestart ==
  /\ pc = "idle"
  /\ last' = "GwRestart"
  /\ env' \in GwEnvs
  /\ auth_state' = NoAuthState
  /\ reply' = NoReply
  /\ UNCHANGED << now, pc >>
  /\ UNCHANGED gwFrame

\* half an hour passes between two requests
GwTick ==
  /\ pc = "idle"
  /\ now < MaxGwNow
  /\ now' = now + GwLifetime \div 2
  /\ last' = "GwTick"
  /\ UNCHANGED << env, pc, auth_state, reply >>
  /\ UNCHANGED gwFrame

\* the token file the gateway process finds: none, or the record the auth
\* layer saved for T1 at time 0 with the default lifetime
GwFiles ==
  { AbsentFile, JsonFile(TokenInfo("T1", "R1", DefaultExpiresIn, 0)) }

\* the gateway process starts; it has no CybershuttleAuth object
GwInit ==
  /\ env \in GwEnvs
  /\ file \in GwFiles
  /\ access_token = None
  /\ refresh_token = None
  /\ token_expires_at = NoTime
  /\ now = 0
  /\ pc = "idle"
  /\ interval = 0
  /\ counter = 0
  /\ deviceReqs = 0
  /\ tokenReqs = 0
  /\ sleeps = 0
  /\ fileReads = 0
  /\ validChecks = 0
  /\ lastDevice = "none"
  /\ lastAnswer = "none"
  /\ pendingAnswers = 0
  /\ issued = << >>
  /\ io = "none"
  /\ vchk = NoCheck
  /\ ret = NoReturn
  /\ caller = "none"
  /\ out = NoOutcome
  /\ last = "init"
  /\ injected = (env # None)
  /\ fresh = TRUE
  /\ flowTok = None
  /\ flowExp = NoTime
  /\ saved = NoSave
  /\ auth_state = NoAuthState
  /\ reply = NoReply
  /\ threads = [t \in Threads |-> NoCall]

GwNext ==
  \/ GatewayRequest
  \/ HealthCheck
  \/ GwRestart
  \/ GwTick

GwSpec == GwInit /\ [][GwNext]_vars

(********************************* claims **********************************)
\* the access_token and expires_at members of the token file
FileToken == DictGet(file.members, "access_token", None)

FileExpiry == DictGet(file.members, "expires_at", NoTime)

\* the last completed call is a get_access_token() that returned a value
GotValue == ret.op = "get_access_token" /\ ret.kind = "value"

\* C1: with no override injected from outside, get_access_token() never
\* returns an access token that is past now >= expires_at - 300s; the next
\* call after that point starts a new device flow instead.
C1_NeverReturnsUnusable ==
  (~injected /\ GotValue /\ Truthy(ret.val) /\ ret.val = access_token
     /\ token_expires_at # NoTime)
    => ret.at < token_expires_at - 300

\* C2: when CS_ACCESS_TOKEN holds a non-empty value, get_access_token()
\* returns exactly that value without reading the token file, without an
\* expiry check and without a request to the device or token endpoint.
C2_OverrideWins ==
  [][ (last' = "GetAccessToken" /\ Truthy(env))
        => /\ pc' = "idle"
           /\ ret'.kind = "value"
           /\ ret'.val = env
           /\ fileReads' = 0
           /\ validChecks' = 0
           /\ deviceReqs' = 0
           /\ tokenReqs' = 0 ]_vars

\* the override was returned while the file held a different, usable token
C2_Witness ==
  /\ last = "GetAccessToken"
  /\ injected
  /\ GotValue
  /\ ret.via = "override"
  /\ ret.val = "OV"
  /\ file.kind = "json"
  /\ FileToken = "T1"
  /\ IsTokenValid(FileToken, FileExpiry, ret.at)

\* C3: in a fresh process with no override, a usable record in the token
\* file makes get_access_token() return that record's access_token with no
\* request to the device or token endpoint.
C3_FreshCacheHit ==
  [][ ( /\ last' = "GetAccessToken"
        /\ fresh
        /\ ~Truthy(env)
        /\ file.kind = "json"
        /\ Truthy(FileToken)
        /\ FileExpiry # NoTime
        /\ now + 300 < FileExpiry )
        => /\ pc' = "idle"
           /\ ret'.kind = "value"
           /\ ret'.val = FileToken
           /\ deviceReqs' = 0
           /\ tokenReqs' = 0 ]_vars

\* the first call of a fresh process returned the token of the file
C3_Witness ==
  /\ last = "GetAccessToken"
  /\ GotValue
  /\ ret.fresh
  /\ ~injected
  /\ ret.via = "cache"
  /\ ret.val = "T1"
  /\ FileToken = "T1"
  /\ fileReads = 1

\* C4: after get_access_token() returned T through a device flow, every
\* later call in the same process, while T is usable and no logout happened,
\* returns T and starts neither phase of the device flow.
C4_Idempotent ==
  [][ ( /\ last' = "GetAccessToken"
        /\ flowTok # None
        /\ Truthy(flowTok)
        /\ now + 300 < flowExp )
        => /\ pc' = "idle"
           /\ ret'.kind = "value"
           /\ ret'.val = flowTok
           /\ deviceReqs' = 0
           /\ tokenReqs' = 0 ]_vars

\* a later call returned the token of the earlier device flow
C4_Witness ==
  /\ last = "GetAccessToken"
  /\ GotValue
  /\ ~ret.fresh
  /\ flowTok = "T1"
  /\ ret.val = "T1"
  /\ ret.at < flowExp - 300
  /\ deviceReqs = 0

\* C5: one get_access_token() call sends at most one device-authorization
\* request; when the flow fails the call returns None, and a device flow
\* only ever starts in the step that begins a get_access_token() call.
C5_OneFlowPerCall ==
  [][ /\ deviceReqs' <= 1
      /\ (deviceReqs' > deviceReqs => last' = "GetAccessToken")
      /\ (ret'.via = "flow_failed"
            => /\ pc' = "idle"
               /\ ret'.kind = "value"
               /\ ret'.val = None
               /\ deviceReqs' = 1) ]_vars

\* a call ended in failure after a terminal answer in phase 2
C5_Witness ==
  /\ ret.op = "get_access_token"
  /\ ret.via = "flow_failed"
  /\ lastDevice = "200"
  /\ lastAnswer = "access_denied"
  /\ pc = "idle"

C7_TerminalAnswerAborts ==
  (lastAnswer \notin {"none", "200", "authorization_pending"})
    => /\ pc = "idle"
       /\ ret.via = "flow_failed"
       /\ ret.val = None
       /\ tokenReqs = pendingAnswers + 1

\* slow_down after one pending answer ended the flow
C7_Witness ==
  /\ lastAnswer = "slow_down"
  /\ pendingAnswers = 1
  /\ tokenReqs = 2
  /\ ret.via = "flow_failed"

\* C8: a phase-1 answer other than HTTP 200, or a network error, ends the
\* flow with failure at once, with one device request and no token request;
\* token requests are only sent after an HTTP 200 phase-1 answer.
C8_Phase1FailureIsFinal ==
  /\ (lastDevice \in {"status", "neterr"}
        => /\ pc = "idle"
           /\ ret.via = "flow_failed"
           /\ ret.val = None
           /\ deviceReqs = 1
           /\ tokenReqs = 0)
  /\ (tokenReqs > 0 => lastDevice = "200")

\* phase 1 was rejected and the call returned failure
C8_Witness ==
  /\ lastDevice = "status"
  /\ ret.op = "get_access_token"
  /\ ret.via = "flow_failed"
  /\ tokenReqs = 0

\* C9: the usability check is now < expires_at - 300, strictly: invalid at
\* expires_at = now + 299 and at now + 300, valid at now + 301, and always
\* invalid without an access_token or without an expires_at.
C9_ValidityBoundary ==
  vchk.done
    => /\ vchk.res <=> ( /\ vchk.at # None /\ vchk.at # ""
                         /\ vchk.exp # NoTime
                         /\ vchk.now + 300 < vchk.exp )
       /\ (vchk.exp = vchk.now + 299 => ~vchk.res)
       /\ (vchk.exp = vchk.now + 300 => ~vchk.res)
       /\ (vchk.exp = vchk.now + 301 /\ vchk.at = "T1" => vchk.res)

\* a record was checked at exactly expires_at - 300 and judged invalid
C9_Witness ==
  /\ vchk.done
  /\ vchk.at = "T1"
  /\ vchk.exp = vchk.now + 300
  /\ ~vchk.res

\* C10: a load that follows a successful save, with no write in between,
\* gives the saved access_token and refresh_token, and the expires_at fixed
\* at save time as now + expires_in (3600 when the server gave none).
C10_SaveLoadRoundTrip ==
  [][ (last' = "GetAccessToken" /\ fileReads' = 1 /\ saved.kind = "record")
        => /\ access_token' = saved.access_token
           /\ refresh_token' = saved.refresh_token
           /\ token_expires_at' =
                saved.at + (IF saved.expires_in = MissingNum THEN 3600
                            ELSE saved.expires_in) ]_vars

\* a record saved earlier with the default lifetime was loaded later
C10_Witness ==
  /\ last = "GetAccessToken"
  /\ fileReads = 1
  /\ saved.kind = "record"
  /\ saved.expires_in = MissingNum
  /\ now > saved.at
  /\ access_token = "T1"
  /\ refresh_token = "R1"
  /\ token_expires_at = saved.at + 3600

\* C11: logout() never raises, also when the file cannot be removed, and a
\* logout() on a store that is already empty leaves it empty: the file
\* absent, CS_ACCESS_TOKEN unset and the three fields None.
C11_LogoutIdempotent ==
  [][ last' = "Logout"
        => /\ ret'.kind = "value"
           /\ out'.kind = "value"
           /\ StoreEmpty => StoreEmpty' ]_vars

\* logout() was called on an empty store and then a second time right after
C11_Witness ==
  /\ last = "Logout"
  /\ ret.op = "logout"
  /\ ret.via = "repeated"
  /\ ret.kind = "value"
  /\ StoreEmpty

\* C12: once logout() has returned, the token file is absent, CS_ACCESS_TOKEN
\* is unset and the three fields are None.
C12_LogoutClearsEverything ==
  (last = "Logout" /\ ret.op = "logout" /\ ret.kind = "value") => StoreEmpty

\* C13: a get_access_token() that finds no override and no parseable token
\* file returns no token of its own: it does not raise and goes on to the
\* device flow.
C13_AbsentMeansUnauthenticated ==
  [][ (last' = "GetAccessToken" /\ ~Truthy(env) /\ file.kind # "json")
        => /\ ret'.kind = "running"
           /\ pc' = "device_wait" ]_vars

\* C14: when the token endpoint issued a token and saving it failed (the
\* directory, the open or the write), the call still ends by returning that
\* token.
C14_SaveFailureIsNotFatal ==
  (/\ last = "TokenAnswer"
   /\ lastAnswer = "200"
   /\ Truthy(DictGet(issued, "access_token", None))
   /\ io \in {"dir_fail", "open_fail", "write_fail"})
    => /\ GotValue
       /\ ret.via = "flow"
       /\ ret.val = issued.access_token
       /\ access_token = issued.access_token

\* C15: get_auth_headers() returns a header map only for a non-empty token,
\* with Authorization "Bearer " + that token, and raises ValueError whenever
\* get_access_token() returned None or an empty token.
C15_HeadersCarryToken ==
  (caller = "get_auth_headers" /\ ret.kind # "running")
    => /\ out.kind \in {"value", "raised"}
       /\ out.kind = "value"
            => /\ ret.kind = "value"
               /\ ret.val \notin {None, ""}
               /\ out.headers[1] = <<"Authorization", <<"Bearer ", ret.val>> >>
       /\ (ret.kind = "value" /\ ret.val \in {None, ""})
            => (out.kind = "raised" /\ out.error = "ValueError")

\* the token endpoint issued an empty access_token and get_auth_headers()
\* raised ValueError
C15_Witness ==
  /\ caller = "get_auth_headers"
  /\ last = "TokenAnswer"
  /\ lastAnswer = "200"
  /\ ret.kind = "value"
  /\ ret.val = ""
  /\ out.kind = "raised"
  /\ out.error = "ValueError"

\* C16: whenever is_authenticated() returns true, the token it obtained is
\* one get_auth_headers() accepts, and it returns true exactly when
\* get_access_token() returned a token.
C16_ProbeAgreesWithHeaders ==
  (caller = "is_authenticated" /\ out.kind = "value")
    => /\ out.flag <=> (ret.kind = "value" /\ ret.val # None)
       /\ out.flag => GetAuthHeaders(ret).kind = "value"

\* C17: a gateway handler sends its upstream request only with the non-empty
\* token get_auth_token() returned, and when no token can be had a request
\* handler raises 401 and nothing is sent upstream.
C17_TokenBeforeUpstream ==
  /\ reply.sent = 1
       => (reply.bearer \notin {None, ""} /\ reply.bearer = auth_state.token)
  /\ (reply.op # "none" /\ ~reply.obtainable) => reply.sent = 0
  /\ (reply.op = "request" /\ ~reply.obtainable)
       => (reply.kind = "raised" /\ reply.status = 401)

\* a request arrived while CS_ACCESS_TOKEN was set to the empty string
C17_Witness ==
  /\ reply.op = "request"
  /\ env = ""
  /\ ~reply.obtainable
  /\ reply.kind = "raised"
  /\ reply.status = 401
  /\ reply.sent = 0

C19_UpstreamErrorPassedThrough ==
  /\ (reply.op = "request" /\ reply.upstream.kind = "http_error")
       => /\ reply.kind = "raised"
          /\ reply.status = reply.upstream.status
          /\ \E i \in DOMAIN reply.detail :
               reply.detail[i] = reply.upstream.body
  /\ (reply.op = "request" /\ reply.upstream.kind = "unreachable")
       => (reply.kind = "raised" /\ reply.status = 500)

\* C20: /health always answers normally; it says healthy and authenticated
\* only when a token was obtained and the probe succeeded, and unhealthy and
\* not authenticated otherwise.
C20_HealthNeverFails ==
  reply.op = "health"
    => /\ reply.kind = "value"
       /\ IF reply.sent = 1 /\ reply.upstream.kind = "ok"
             /\ Truthy(reply.bearer)
          THEN reply.health = "healthy" /\ reply.authenticated
          ELSE reply.health = "unhealthy" /\ ~reply.authenticated

\* /health answered unhealthy after the probe could not reach upstream
C20_Witness ==
  /\ reply.op = "health"
  /\ reply.kind = "value"
  /\ reply.sent = 1
  /\ reply.upstream.kind = "unreachable"
  /\ reply.health = "unhealthy"
  /\ ~reply.authenticated

\* C21: every change of the token file leaves either no file (logout) or
\* the complete new record, the one now held in memory; a reader never
\* finds an empty, truncated or mixed file.
C21_AtomicSupersede ==
  [][ file' # file
        => \/ file'.kind = "absent"
           \/ file' = JsonFile(TokenInfo(access_token', refresh_token',
                                         token_expires_at', now')) ]_vars

\* C24: when the first call of a process loaded an expired record from the
\* file and its device flow failed, the next call of that process, with no
\* override from outside and no successful flow since, returns no token
\* without a new device flow.
C24_ExpiredRecordStaysUnusable ==
  [][ (/\ last' = "GetAccessToken"
       /\ ~injected
       /\ flowTok = None
       /\ ret.op = "get_access_token"
       /\ ret.via = "flow_failed"
       /\ ret.fresh
       /\ vchk.done /\ ~vchk.res /\ Truthy(vchk.at)
       /\ fileReads = 1)
        => (ret'.kind = "running" \/ ~Truthy(ret'.val)) ]_vars

\* C25: an HTTP 200 token response without a non-empty access_token ends
\* the call as a failure: None is returned, nothing is raised and no empty
\* token is stored.
C25_SuccessNeedsToken ==
  (/\ last = "TokenAnswer"
   /\ lastAnswer = "200"
   /\ ~Truthy(DictGet(issued, "access_token", None)))
    => /\ ret.kind = "value"
       /\ ret.val = None
       /\ ret.via = "flow_failed"
       /\ access_token # ""

\* C28: a step of the device flow that is not an HTTP 200 token answer (a
\* failed phase 1, a pending or terminal poll answer, a network error)
\* leaves the token file, CS_ACCESS_TOKEN and the three fields as they
\* were, so a flow that returns failure has changed none of them.
C28_FailedFlowChangesNothing ==
  [][ (pc \in {"device_wait", "token_wait"} /\ lastAnswer' # "200")
        => UNCHANGED << file, env, access_token, refresh_token,
                        token_expires_at >> ]_vars

\* a flow that started over a loaded, expired record was denied after a
\* pending answer, and the record is still there
C28_Witness ==
  /\ last = "TokenAnswer"
  /\ lastAnswer = "access_denied"
  /\ pendingAnswers > 0
  /\ ret.via = "flow_failed"
  /\ file.kind = "json"
  /\ access_token = "T1"
  /\ env = "T1"
  /\ token_expires_at # NoTime

\* C29: a step of this instance's public operations that starts with the
\* in-memory access_token equal to CS_ACCESS_TOKEN ends with the two equal;
\* and right after a device flow whose file write succeeded the file's
\* access_token equals both.
C29_CopiesAgree ==
  [][ (/\ last' \in {"GetAccessToken", "DeviceAnswer", "TokenAnswer",
                     "Logout"}
       /\ access_token = env)
        => /\ access_token' = env'
           /\ (last' = "TokenAnswer" /\ io' = "ok")
                => DictGet(file'.members, "access_token", None)
                     = access_token' ]_vars

\* C27: the in-memory fields always belong to one record: when access_token
\* is the token another instance obtained and an expiry is held with it,
\* the refresh token and the expiry are those of that token's record.
C27_WholesaleReplacement ==
  (access_token = "T2" /\ token_expires_at # NoTime)
    => /\ refresh_token = "R2"
       /\ token_expires_at >= 2 * DefaultExpiresIn

\* C26: the gateway's copy of a token is never valid for longer than the
\* record the auth layer keeps for that token, and the gateway sends no
\* token upstream at or after the expiry the auth layer recorded for it.
C26_CopyNeverOutlivesToken ==
  /\ (file.kind = "json" /\ FileToken = auth_state.token)
       => auth_state.token_expires_at <= FileExpiry
  /\ (/\ last \in {"GatewayRequest", "HealthCheck"}
      /\ reply.sent = 1
      /\ file.kind = "json"
      /\ FileToken = reply.bearer)
       => now < FileExpiry

\* C23: a device flow whose endpoints keep answering, the token endpoint
\* not with authorization_pending forever, comes to an end; and on every
\* authorization_pending answer the client polls again, whatever the number
\* of polls so far.
C23_FlowEndsUnlessPendingForever ==
  /\ (pc # "idle") ~> (pc = "idle")
  /\ [][ (last' = "TokenAnswer" /\ lastAnswer' = "authorization_pending")
           => /\ pc' = "token_wait"
              /\ tokenReqs' = tokenReqs + 1
              /\ counter' = counter + 1 ]_vars

\* a flow came to an end after as many authorization_pending answers as the
\* token endpoint gives
C23_Witness ==
  /\ pc = "idle"
  /\ last = "TokenAnswer"
  /\ pendingAnswers = MaxPending
  /\ counter = MaxPending
  /\ sleeps = MaxPending
  /\ ret.kind # "running"

\* C30: authenticate() returns the object exactly when the probe's
\* get_access_token() gave a value other than None or the direct second
\* device flow succeeded; it sends at most two device requests, the second
\* only after the probe's flow failed, and raises ValueError only when two
\* flows ran and the second failed too.
C30_AuthenticateTriesTwice ==
  [][ (caller' = "authenticate")
        => /\ deviceReqs' <= 2
           /\ (deviceReqs' = 2 /\ deviceReqs = 1)
                => /\ pc # "idle"
                   /\ ret.op = "get_access_token"
                   /\ last' \in {"DeviceAnswer", "TokenAnswer"}
                   /\ pc' = "device_wait"
           /\ (pc' = "idle" /\ ret'.kind = "value")
                => /\ out'.kind = "value"
                     <=> \/ (ret'.op = "get_access_token" /\ ret'.val # None)
                         \/ (ret'.op = "device_flow_auth" /\ ret'.via = "flow")
                   /\ out'.kind = "raised"
                        => /\ out'.error = "ValueError"
                           /\ deviceReqs' = 2
                           /\ ret'.op = "device_flow_auth"
                           /\ ret'.via = "flow_failed" ]_vars

\* authenticate() raised ValueError after its probe's flow and its second
\* flow had both failed, the second on a denied authorization
C30_Witness ==
  /\ caller = "authenticate"
  /\ pc = "idle"
  /\ out.kind = "raised"
  /\ out.error = "ValueError"
  /\ deviceReqs = 2
  /\ ret.op = "device_flow_auth"
  /\ lastAnswer = "access_denied"

\* C22: of the get_access_token() calls that overlap on one object, at most
\* one is inside a device flow (waiting for the device endpoint or polling
\* the token endpoint) at any time.
C22_OneFlowInFlight ==
  Cardinality({ t \in Threads :
                  threads[t].pc \in {"device_wait", "token_wait"} }) <= 1

====
